---------------------------- MODULE Spec2Model ----------------------------
(***************************************************************************)
(* A model of rust_eureka: the hand-written serde codec of model::Instance *)
(* (src/src/model/instance.rs) and the three operations of EurekaClient    *)
(* (src/src/eureka_client.rs).                                             *)
(*                                                                         *)
(* Conventions.  Option<T>: None is <<>>, Some(v) is <<v>>.  Result<T, E>: *)
(* a record [ok, value, error] with value a sequence of 0 or 1 elements.   *)
(* A JSON value is a record [t, v]: t its JSON type, v a sequence holding  *)
(* its content.  A JSON object is the sequence of its <<key, value>>       *)
(* members in document order, so that a repeated key is representable.     *)
(***************************************************************************)
EXTENDS Integers, Sequences, FiniteSets, TLC

VARIABLES
    \* ---- codec (instance.rs) ----
    phase,      \* "value": an Instance waits to be serialized; "wire": an object
                \* waits to be deserialized; "done": deserialize has returned
    inst,       \* Option<Instance>: the value handed to serialize
    wire,       \* the JSON object (serialize's output, or a document received)
    decoded,    \* Result<Instance, DeError>: what deserialize returned
    \* ---- client (eureka_client.rs) ----
    client,     \* the EurekaClient's fields
    calls       \* per call: its position in the future chain and what it saw

vars == <<phase, inst, wire, decoded, client, calls>>

codecVars == <<phase, inst, wire, decoded>>
clientVars == <<client, calls>>

--------------------------------------------------------------------------
(* Bounds of the model *)

\* an arbitrary input document deviates from the full schema document by at
\* most this many edits (a member removed, repeated, or an unknown one added)
MaxEdits == 2
\* every sequence of at most this many keys is also an input document
MaxShort == 2
\* overlapping calls on the one client
MaxCalls == 2

--------------------------------------------------------------------------
(* Option and Result *)

None == <<>>
Some(v) == <<v>>

NoError == [type |-> "none", field |-> "", expected |-> <<>>]
Ok(v) == [ok |-> TRUE, value |-> <<v>>, error |-> NoError]
Err(e) == [ok |-> FALSE, value |-> <<>>, error |-> e]

\* serde::de::Error constructors as the visitor calls them
unknown_field(v, expected) == [type |-> "unknown_field", field |-> v, expected |-> expected]
duplicate_field(name) == [type |-> "duplicate_field", field |-> name, expected |-> <<>>]
missing_field(name) == [type |-> "missing_field", field |-> name, expected |-> <<>>]
invalid_type(name) == [type |-> "invalid_type", field |-> name, expected |-> <<>>]

--------------------------------------------------------------------------
(* JSON values *)

JNull == [t |-> "null", v |-> <<>>]
JStr(s) == [t |-> "string", v |-> <<s>>]
JNum(n) == [t |-> "number", v |-> <<n>>]
JArr(a) == [t |-> "array", v |-> a]
JObj(tag, token) == [t |-> "object", v |-> <<tag, token>>]

--------------------------------------------------------------------------
(* instance.rs: field name constants *)

INSTANCE_NAME == "Instance"
HOST_NAME == "hostName"
APP == "app"
IP_ADDR == "ipAddr"
VIP_ADDRESS == "vipAddress"
SECURE_VIP_ADDRESS == "vipAddress"
STATUS == "status"
PORT == "port"
SECURE_PORT == "securePort"
HOME_PAGE_URL == "homePageUrl"
STATUS_PAGE_URL == "statusPageUrl"
HEALTH_CHECK_URL == "healthCheckUrl"
DATA_CENTER_INFO == "dataCenterInfo"
LEASE_INFO == "leaseInfo"
METADATA == "metadata"

JSON_FIELDS ==
    <<INSTANCE_NAME, HOST_NAME, APP, IP_ADDR, VIP_ADDRESS, SECURE_VIP_ADDRESS,
      STATUS, PORT, SECURE_PORT, HOME_PAGE_URL, STATUS_PAGE_URL, HEALTH_CHECK_URL,
      DATA_CENTER_INFO, LEASE_INFO, METADATA>>

\* struct Instance: its attributes in declaration order
InstanceAttrs ==
    <<"host_name", "app", "ip_addr", "vip_address", "secure_vip_address",
      "status", "port", "secure_port", "homepage_url", "status_page_url",
      "health_check_url", "data_center_info", "lease_info", "metadata">>

\* The wire schema as the repository's own test writes it (tests::test_instance):
\* the member names of the expected document, in order.
SchemaNames ==
    <<"hostName", "app", "ipAddr", "vipAddress", "secureVipAddress", "status",
      "port", "securePort", "homePageUrl", "statusPageUrl", "healthCheckUrl",
      "dataCenterInfo", "leaseInfo", "metadata">>

\* the attributes whose type is Option<_>
OptionalAttrs == {"port", "secure_port", "lease_info"}

Range(f) == {f[i] : i \in DOMAIN f}

\* wire name (per the schema) of an attribute, and back
SchemaNameOf(attr) == SchemaNames[CHOOSE i \in 1..14 : InstanceAttrs[i] = attr]
AttrOfSchemaName(n) == InstanceAttrs[CHOOSE i \in 1..14 : SchemaNames[i] = n]

OptionalNames == {SchemaNameOf(a) : a \in OptionalAttrs}
RequiredNames == Range(SchemaNames) \ OptionalNames

--------------------------------------------------------------------------
(* The nested types Status, DataCenterInfo and LeaseInfo: their serde      *)
(* implementations are in modules of the repository outside src/, so they  *)
(* are modelled from the specification: each maps to one JSON value and    *)
(* back.                                                                   *)

StatusValues == {"UP", "DOWN", "STARTING", "OUT_OF_SERVICE", "UNKNOWN"}
DataCenterInfos == {"Amazon"}
LeaseInfos == {"evictionDurationInSecs:9600"}

EncodeStatus(s) == JStr(s)
DecodeStatus(j) ==
    IF j.t = "string" /\ j.v[1] \in StatusValues THEN Ok(j.v[1])
    ELSE Err(invalid_type("Status"))

EncodeDataCenterInfo(d) == JObj("DataCenterInfo", d)
DecodeDataCenterInfo(j) ==
    IF j.t = "object" /\ j.v[1] = "DataCenterInfo" /\ j.v[2] \in DataCenterInfos
    THEN Ok(j.v[2]) ELSE Err(invalid_type("DataCenterInfo"))

EncodeLeaseInfo(l) == JObj("LeaseInfo", l)
DecodeLeaseInfo(j) ==
    IF j.t = "object" /\ j.v[1] = "LeaseInfo" /\ j.v[2] \in LeaseInfos
    THEN Ok(j.v[2]) ELSE Err(invalid_type("LeaseInfo"))

--------------------------------------------------------------------------
(* serde's implementations for the standard types the Instance uses *)

EncodeString(s) == JStr(s)
DecodeString(j) == IF j.t = "string" THEN Ok(j.v[1]) ELSE Err(invalid_type("String"))

U16Max == 65535
EncodeU16(n) == JNum(n)
DecodeU16(j) ==
    IF j.t = "number" /\ j.v[1] >= 0 /\ j.v[1] <= U16Max THEN Ok(j.v[1])
    ELSE Err(invalid_type("u16"))

\* Option<T>: None is null, Some(x) is x's encoding
EncodeOptionU16(o) == IF o = None THEN JNull ELSE EncodeU16(o[1])
DecodeOptionU16(j) ==
    IF j.t = "null" THEN Ok(None)
    ELSE LET r == DecodeU16(j) IN IF r.ok THEN Ok(Some(r.value[1])) ELSE r

EncodeOptionLeaseInfo(o) == IF o = None THEN JNull ELSE EncodeLeaseInfo(o[1])
DecodeOptionLeaseInfo(j) ==
    IF j.t = "null" THEN Ok(None)
    ELSE LET r == DecodeLeaseInfo(j) IN IF r.ok THEN Ok(Some(r.value[1])) ELSE r

\* Vec<String>
EncodeVecString(a) == JArr(a)
DecodeVecString(j) == IF j.t = "array" THEN Ok(j.v) ELSE Err(invalid_type("Vec<String>"))

--------------------------------------------------------------------------
(* impl Serialize for Instance *)

\* serialize with absent optional attributes left out of the document (what
\* skip_serializing_if = "Option::is_none" would do)
serialize_skipping_none(self) ==
    << <<HOST_NAME, EncodeString(self.host_name)>>,
       <<APP, EncodeString(self.app)>>,
       <<IP_ADDR, EncodeString(self.ip_addr)>>,
       <<VIP_ADDRESS, EncodeString(self.vip_address)>>,
       <<SECURE_VIP_ADDRESS, EncodeString(self.secure_vip_address)>>,
       <<STATUS, EncodeStatus(self.status)>> >>
    \o (IF self.port = None THEN <<>> ELSE << <<PORT, EncodeU16(self.port[1])>> >>)
    \o (IF self.secure_port = None THEN <<>>
        ELSE << <<SECURE_PORT, EncodeU16(self.secure_port[1])>> >>)
    \o << <<HOME_PAGE_URL, EncodeString(self.homepage_url)>>,
          <<STATUS_PAGE_URL, EncodeString(self.status_page_url)>>,
          <<HEALTH_CHECK_URL, EncodeString(self.health_check_url)>>,
          <<DATA_CENTER_INFO, EncodeDataCenterInfo(self.data_center_info)>> >>
    \o (IF self.lease_info = None THEN <<>>
        ELSE << <<LEASE_INFO, EncodeLeaseInfo(self.lease_info[1])>> >>)
    \o << <<METADATA, EncodeVecString(self.metadata)>> >>

\* serialize_field(NAME, &self.attr): one member per call, in call order
serialize(self) ==
    << <<HOST_NAME, EncodeString(self.host_name)>>,
       <<APP, EncodeString(self.app)>>,
       <<IP_ADDR, EncodeString(self.ip_addr)>>,
       <<VIP_ADDRESS, EncodeString(self.vip_address)>>,
       <<SECURE_VIP_ADDRESS, EncodeString(self.secure_vip_address)>>,
       <<STATUS, EncodeStatus(self.status)>>,
       <<PORT, EncodeOptionU16(self.port)>>,
       <<SECURE_PORT, EncodeOptionU16(self.secure_port)>>,
       <<HOME_PAGE_URL, EncodeString(self.homepage_url)>>,
       <<STATUS_PAGE_URL, EncodeString(self.status_page_url)>>,
       <<HEALTH_CHECK_URL, EncodeString(self.health_check_url)>>,
       <<DATA_CENTER_INFO, EncodeDataCenterInfo(self.data_center_info)>>,
       <<LEASE_INFO, EncodeOptionLeaseInfo(self.lease_info)>>,
       <<METADATA, EncodeVecString(self.metadata)>> >>

--------------------------------------------------------------------------
(* impl Deserialize for Instance *)

\* enum Field
Fields ==
    {"HostName", "App", "IpAddr", "VipAddress", "SecureVipAddress", "Status",
     "Port", "SecurePort", "HomepageUrl", "StatusPageUrl", "HealthCheckUrl",
     "DataCenterInfo", "LeaseInfo", "Metadata"}

\* FieldVisitor::visit_str: the match arms, tried in order
visit_str(v) ==
    IF v = HOST_NAME THEN Ok("HostName")
    ELSE IF v = APP THEN Ok("App")
    ELSE IF v = IP_ADDR THEN Ok("IpAddr")
    ELSE IF v = VIP_ADDRESS THEN Ok("VipAddress")
    ELSE IF v = SECURE_VIP_ADDRESS THEN Ok("SecureVipAddress")
    ELSE IF v = STATUS THEN Ok("Status")
    ELSE IF v = PORT THEN Ok("Port")
    ELSE IF v = SECURE_PORT THEN Ok("SecurePort")
    ELSE IF v = HOME_PAGE_URL THEN Ok("HomepageUrl")
    ELSE Err(unknown_field(v, JSON_FIELDS))

\* The arms of visit_map's match: for each Field, the maybe_ local whose
\* is_some() is tested, the name the duplicate error carries, and the maybe_
\* local that is assigned.
VisitArm(key) ==
    CASE key = "HomepageUrl" ->
           [guard |-> "host_name", name |-> HOME_PAGE_URL, slot |-> "homepage_url"]
      [] key = "App" -> [guard |-> "app", name |-> APP, slot |-> "app"]
      [] key = "IpAddr" -> [guard |-> "ip_addr", name |-> IP_ADDR, slot |-> "ip_addr"]
      [] key = "VipAddress" ->
           [guard |-> "vip_address", name |-> VIP_ADDRESS, slot |-> "vip_address"]
      [] key = "SecureVipAddress" ->
           [guard |-> "secure_vip_address", name |-> SECURE_VIP_ADDRESS,
            slot |-> "secure_vip_address"]
      [] key = "Status" -> [guard |-> "status", name |-> STATUS, slot |-> "status"]
      [] key = "Port" -> [guard |-> "port", name |-> PORT, slot |-> "port"]
      [] key = "SecurePort" ->
           [guard |-> "secure_port", name |-> SECURE_PORT, slot |-> "secure_port"]
      [] key = "StatusPageUrl" ->
           [guard |-> "status_page_url", name |-> STATUS_PAGE_URL,
            slot |-> "status_page_url"]
      [] key = "HealthCheckUrl" ->
           [guard |-> "health_check_url", name |-> HEALTH_CHECK_URL,
            slot |-> "health_check_url"]
      [] key = "DataCenterInfo" ->
           [guard |-> "data_center_info", name |-> DATA_CENTER_INFO,
            slot |-> "data_center_info"]
      [] key = "LeaseInfo" ->
           [guard |-> "lease_info", name |-> LEASE_INFO, slot |-> "lease_info"]
      [] key = "Metadata" ->
           [guard |-> "metadata", name |-> METADATA, slot |-> "metadata"]
      [] key = "HostName" ->
           [guard |-> "host_name", name |-> HOST_NAME, slot |-> "host_name"]

\* map.next_value(): the value is decoded at the type of the attribute the
\* maybe_ local ends in (struct Instance)
next_value(slot, j) ==
    CASE slot = "status" -> DecodeStatus(j)
      [] slot \in {"port", "secure_port"} -> DecodeOptionU16(j)
      [] slot = "data_center_info" -> DecodeDataCenterInfo(j)
      [] slot = "lease_info" -> DecodeOptionLeaseInfo(j)
      [] slot = "metadata" -> DecodeVecString(j)
      [] OTHER -> DecodeString(j)

\* let mut maybe_* = None;
MaybeInit == [a \in Range(InstanceAttrs) |-> None]

\* while let Some(key) = map.next_key()? { match key { ... } }
\* returns the maybe_ locals, or the error the loop returned with
RECURSIVE visit_map_loop(_, _, _)
visit_map_loop(map, i, maybe) ==
    IF i > Len(map) THEN Ok(maybe)
    ELSE LET key == visit_str(map[i][1]) IN
         IF ~key.ok THEN Err(key.error)
         ELSE LET arm == VisitArm(key.value[1]) IN
              IF maybe[arm.guard] # None THEN Err(duplicate_field(arm.name))
              ELSE LET val == next_value(arm.slot, map[i][2]) IN
                   IF ~val.ok THEN Err(val.error)
                   ELSE visit_map_loop(map, i + 1,
                            [maybe EXCEPT ![arm.slot] = Some(val.value[1])])

\* let attr = maybe_attr.ok_or_else(|| DeError::missing_field(NAME)); then
\* Ok(Instance { attr: attr?, ... }): the name each absent local is reported by,
\* in the order the struct literal applies `?`
MissingName ==
    << <<"host_name", HOST_NAME>>, <<"app", APP>>, <<"ip_addr", IP_ADDR>>,
       <<"vip_address", VIP_ADDRESS>>, <<"secure_vip_address", SECURE_VIP_ADDRESS>>,
       <<"status", STATUS>>, <<"port", PORT>>, <<"secure_port", SECURE_PORT>>,
       <<"homepage_url", HOME_PAGE_URL>>, <<"status_page_url", STATUS_PAGE_URL>>,
       <<"health_check_url", HEALTH_CHECK_URL>>,
       <<"data_center_info", DATA_CENTER_INFO>>, <<"lease_info", LEASE_INFO>>,
       <<"metadata", METADATA>> >>

build_instance(maybe) ==
    LET absent == {i \in DOMAIN MissingName : maybe[MissingName[i][1]] = None} IN
    IF absent # {}
    THEN LET first == CHOOSE i \in absent : \A k \in absent : i <= k IN
         Err(missing_field(MissingName[first][2]))
    ELSE Ok([a \in Range(InstanceAttrs) |-> maybe[a][1]])

\* InstanceVisitor::visit_map
visit_map(map) ==
    LET r == visit_map_loop(map, 1, MaybeInit) IN
    IF r.ok THEN build_instance(r.value[1]) ELSE r

\* Instance::deserialize: deserialize_struct hands the document to visit_map
deserialize(map) == visit_map(map)

--------------------------------------------------------------------------
(* Inputs of the codec *)

\* The Instance values handed to serialize.  tests::test_instance builds the
\* first of them; the others vary the attributes the codec treats differently.
Instances ==
    [host_name : {"Foo"}, app : {"Bar"}, ip_addr : {"3.128.2.12"},
     vip_address : {"127.0.0.1", "127.0.0.2"},
     secure_vip_address : {"127.0.0.1", "127.0.0.2"},
     status : StatusValues,
     port : {None, Some(80)}, secure_port : {None, Some(443)},
     homepage_url : {"http://google.com"},
     status_page_url : {"http://nytimes.com"},
     health_check_url : {"http://washingtonpost.com"},
     data_center_info : DataCenterInfos,
     lease_info : {None} \cup {Some(l) : l \in LeaseInfos},
     metadata : {<<>>, <<"something">>}]

TestInstance ==
    [host_name |-> "Foo", app |-> "Bar", ip_addr |-> "3.128.2.12",
     vip_address |-> "127.0.0.1", secure_vip_address |-> "127.0.0.2",
     status |-> "UP", port |-> Some(80), secure_port |-> Some(443),
     homepage_url |-> "http://google.com",
     status_page_url |-> "http://nytimes.com",
     health_check_url |-> "http://washingtonpost.com",
     data_center_info |-> "Amazon",
     lease_info |-> Some("evictionDurationInSecs:9600"),
     metadata |-> <<"something">>]

\* the names a received document may use: the schema's and one outside it
UnknownName == "bogus"
DocNames == Range(SchemaNames) \cup {UnknownName}

\* the value a received document gives a member: the test document's
DocValue(n) ==
    IF n = UnknownName THEN JStr("x")
    ELSE LET a == AttrOfSchemaName(n) IN
         CASE a = "status" -> EncodeStatus(TestInstance.status)
           [] a \in {"port", "secure_port"} -> EncodeOptionU16(TestInstance[a])
           [] a = "data_center_info" -> EncodeDataCenterInfo(TestInstance[a])
           [] a = "lease_info" -> EncodeOptionLeaseInfo(TestInstance[a])
           [] a = "metadata" -> EncodeVecString(TestInstance[a])
           [] OTHER -> EncodeString(TestInstance[a])

Member(n) == <<n, DocValue(n)>>

Reverse(s) == [i \in 1..Len(s) |-> s[Len(s) + 1 - i]]
Rotate(s, k) == [i \in 1..Len(s) |-> s[((i - 1 + k) % Len(s)) + 1]]

\* the orders in which a received document lists its members
KeyOrder == SchemaNames \o <<UnknownName>>
KeyOrders == {KeyOrder, Reverse(KeyOrder), Rotate(KeyOrder, 5), Rotate(KeyOrder, 8)}

\* how often the full schema document holds each name
FullCount == [n \in DocNames |-> IF n = UnknownName THEN 0 ELSE 1]

\* an edit changes one name's number of occurrences
Edits == {e \in DocNames \X (0..2) : e[2] # FullCount[e[1]]}
EditSeqs == UNION {[1..n -> Edits] : n \in 0..MaxEdits}

RECURSIVE ApplyEdits(_, _, _)
ApplyEdits(count, es, i) ==
    IF i > Len(es) THEN count
    ELSE ApplyEdits([count EXCEPT ![es[i][1]] = es[i][2]], es, i + 1)

Repeat(x, k) == [i \in 1..k |-> x]

\* the document that lists the names in `order`, each count[n] times
RECURSIVE DocumentOf(_, _, _)
DocumentOf(order, count, i) ==
    IF i > Len(order) THEN <<>>
    ELSE Repeat(Member(order[i]), count[order[i]]) \o DocumentOf(order, count, i + 1)

EditedDocuments ==
    {DocumentOf(o, ApplyEdits(FullCount, es, 1), 1) : o \in KeyOrders, es \in EditSeqs}

ShortDocuments ==
    {[i \in DOMAIN ks |-> Member(ks[i])] : ks \in UNION {[1..n -> DocNames] : n \in 0..MaxShort}}

InputDocuments == EditedDocuments \cup ShortDocuments

\* what a document holds
Names(doc) == {doc[i][1] : i \in DOMAIN doc}
Occurrences(doc, n) == Cardinality({i \in DOMAIN doc : doc[i][1] = n})

--------------------------------------------------------------------------
(* The client's state while the codec runs, and the codec's while the      *)
(* client runs                                                             *)

NotYet == Err(NoError)

ClientIdle ==
    /\ client = [client_name |-> "", eureka_cluster_url |-> <<>>]
    /\ calls = <<>>

CodecIdle ==
    /\ phase = "done"
    /\ inst = None
    /\ wire = <<>>
    /\ decoded = NotYet

--------------------------------------------------------------------------
(* The codec as a state machine: a value is serialized to a document, a    *)
(* document (that one, or one received) is deserialized.                   *)

CodecInit ==
    /\ ClientIdle
    /\ decoded = NotYet
    /\ \/ /\ phase = "value"
          /\ inst \in {Some(x) : x \in Instances}
          /\ wire = <<>>
       \/ /\ phase = "wire"
          /\ inst = None
          /\ wire \in InputDocuments

Serialize ==
    /\ phase = "value"
    /\ wire' = serialize(inst[1])
    /\ phase' = "wire"
    /\ UNCHANGED <<inst, decoded, clientVars>>

Deserialize ==
    /\ phase = "wire"
    /\ decoded' = deserialize(wire)
    /\ phase' = "done"
    /\ UNCHANGED <<inst, wire, clientVars>>

CodecNext == Serialize \/ Deserialize

CodecSpec == CodecInit /\ [][CodecNext]_vars

--------------------------------------------------------------------------
(* Claims about the codec (checked under CodecSpec) *)

\* serialize has produced `wire` from the value in `inst`
Encoded == inst # None /\ phase \in {"wire", "done"}
\* deserialize has returned on a document that was received
DecodedReceived == inst = None /\ phase = "done"
\* deserialize has returned on the document serialize produced
DecodedEncoded == inst # None /\ phase = "done"

\* a document of schema names only, none of them repeated
WellFormedDoc(doc) ==
    /\ Names(doc) \subseteq Range(SchemaNames)
    /\ \A n \in Names(doc) : Occurrences(doc, n) = 1

\* the first name of `absent` in schema order
FirstInSchemaOrder(absent) ==
    SchemaNames[CHOOSE i \in 1..14 :
        /\ SchemaNames[i] \in absent
        /\ \A k \in 1..14 : SchemaNames[k] \in absent => i <= k]

\* C1: round trip.  For every Instance x, deserializing the document that
\* serialize produced from x succeeds and yields x.
C1_RoundTrip ==
    DecodedEncoded => decoded = Ok(inst[1])

\* C2: serialize emits exactly the 14 members of the schema, with pairwise
\* distinct names, in schema order, each carrying the encoding of its own
\* attribute (secureVipAddress carries secure_vip_address).
C2_EncodedFields ==
    Encoded =>
        /\ Len(wire) = 14
        /\ \A i, k \in DOMAIN wire : i # k => wire[i][1] # wire[k][1]
        /\ \A i \in DOMAIN wire : wire[i][1] = SchemaNames[i]
        /\ \A i \in DOMAIN wire :
             LET r == next_value(InstanceAttrs[i], wire[i][2]) IN
             r.ok /\ r.value[1] = inst[1][InstanceAttrs[i]]

\* C3: a document that holds every schema name once, except that one or more
\* required names are absent, is rejected with a missing-field error that names
\* the first absent required name in schema order.
C3_MissingFieldNamed ==
    (/\ DecodedReceived
     /\ WellFormedDoc(wire)
     /\ OptionalNames \subseteq Names(wire)
     /\ RequiredNames \ Names(wire) # {})
    => decoded = Err(missing_field(FirstInSchemaOrder(RequiredNames \ Names(wire))))

\* C4: a document of schema names in which some name occurs twice is rejected
\* with a duplicate-field error naming a name that occurs twice, whatever the
\* order of its members; a document in which no name occurs twice is never
\* rejected with a duplicate-field error.
C4_DuplicateFieldNamed ==
    DecodedReceived =>
        LET twice == {n \in Names(wire) : Occurrences(wire, n) > 1} IN
        /\ (twice # {} /\ Names(wire) \subseteq Range(SchemaNames))
             => (~decoded.ok /\ decoded.error.type = "duplicate_field"
                 /\ decoded.error.field \in twice)
        /\ twice = {} => decoded.error.type # "duplicate_field"

\* C5: a key is rejected as an unknown field exactly when it is not a schema
\* name: the error carries a key of the document that is outside the schema and
\* lists the 14 schema names; a document with a key outside the schema and no
\* repeated key is rejected so; and visit_str maps the schema names the
\* document holds each to a field of its own.
C5_UnknownFieldExact ==
    DecodedReceived =>
        /\ decoded.error.type = "unknown_field" =>
             /\ decoded.error.field \in Names(wire) \ Range(SchemaNames)
             /\ Range(SchemaNames) \subseteq Range(decoded.error.expected)
        /\ (/\ ~(Names(wire) \subseteq Range(SchemaNames))
            /\ \A n \in Names(wire) : Occurrences(wire, n) = 1)
             => decoded.error.type = "unknown_field"
        /\ \A n \in Names(wire) \cap Range(SchemaNames) : visit_str(n).ok
        /\ \A n, m \in Names(wire) \cap Range(SchemaNames) :
             n # m => visit_str(n).value # visit_str(m).value

C6_EncodeCase ==
    /\ Encoded
    /\ inst[1].port = None /\ inst[1].secure_port = None /\ inst[1].lease_info = None

--------------------------------------------------------------------------
(* eureka_client.rs.  A string the client concatenates and parses (a URL,  *)
(* an application id) is a sequence of pieces; the piece " " stands for a  *)
(* character no URI may hold.                                              *)

BaseUrls == { <<"http://eureka:8080">>, <<"http://eureka", " ", ":8080">> }
ApplicationIds == { <<"APP">>, <<"MY", " ", "APP">> }
ClientNames == {"rust-client"}

\* str::parse::<Uri>(): hyper rejects a string holding an illegal character
ParseUri(s) ==
    IF \E i \in DOMAIN s : s[i] = " " THEN Err(invalid_type("Uri")) ELSE Ok(s)

\* hyper::StatusCode, the codes the client matches on
StatusCode_BadRequest == 400
StatusCode_NotFound == 404
StatusCode_InternalServerError == 500
\* the statuses the registry answers with in the model
StatusCodes ==
    {200, 201, 204, StatusCode_BadRequest, StatusCode_NotFound,
     StatusCode_InternalServerError}

\* hyper::Error values the transport fails with
HyperErrors == {"Connect", "Incomplete", "Timeout"}
\* HyperError::Io(io::Error::new(io::ErrorKind::Other, e))
HyperError_Io == "Io"

\* impl From<hyper::Error> for EurekaClientError (module errors, outside src/):
\* the specification's taxonomy gives transport failures one variant
EurekaClientError_from(e) == "TransportError"

\* The response envelopes (module response, outside src/), from the
\* specification: an ApplicationResponse wraps one application's instance list
\* under "application", an ApplicationsResponse the applications under
\* "applications"; each Instance is read by Instance::deserialize.  A body of
\* the one envelope does not match the other's schema.
Bodies ==
    [envelope : {"application", "applications"},
     instances : { <<>>, <<serialize(TestInstance)>> }]

RECURSIVE DecodeInstances(_, _)
DecodeInstances(docs, i) ==
    IF i > Len(docs) THEN Ok(<<>>)
    ELSE LET r == deserialize(docs[i]) IN
         IF ~r.ok THEN r
         ELSE LET rest == DecodeInstances(docs, i + 1) IN
              IF ~rest.ok THEN rest ELSE Ok(<<r.value[1]>> \o rest.value[1])

from_slice_ApplicationResponse(body) ==
    IF body.envelope # "application" THEN Err(missing_field("application"))
    ELSE LET r == DecodeInstances(body.instances, 1) IN
         IF r.ok THEN Ok([envelope |-> "application", instances |-> r.value[1]]) ELSE r

from_slice_ApplicationsResponse(body) ==
    IF body.envelope # "applications" THEN Err(missing_field("applications"))
    ELSE LET r == DecodeInstances(body.instances, 1) IN
         IF r.ok THEN Ok([envelope |-> "applications", instances |-> r.value[1]]) ELSE r

\* serde_json::to_string(register_request): the RegisterRequest (module
\* request::register, outside src/) wraps the Instance under "instance"
to_string_RegisterRequest(register_request) ==
    << <<"instance", serialize(register_request)>> >>

--------------------------------------------------------------------------
(* Requests *)

\* Headers::set: a header of the same name is replaced
SetHeader(headers, name, value) ==
    SelectSeq(headers, LAMBDA h : h[1] # name) \o << <<name, value>> >>

HeaderNames(headers) == {headers[i][1] : i \in DOMAIN headers}
HeaderValue(headers, name) ==
    headers[CHOOSE i \in DOMAIN headers : headers[i][1] = name][2]

\* EurekaClient::set_headers
set_headers(self, headers) ==
    LET h1 == SetHeader(headers, "Accept", <<"application/json">>)
        h2 == SetHeader(h1, "Content-Type", <<"application/json">>)
        h3 == SetHeader(h2, "Accept-Charset", <<"utf-8">>)
    IN  SetHeader(h3, "User-Agent", <<"Rust Hyper/", self.client_name>>)

\* EurekaClient::build_uri: Err stands for the panic of unwrap()
build_uri(self, path) == ParseUri(self.eureka_cluster_url \o path)

\* the Request each operation builds: Err when build_uri panics
register_request_of(self, application_id, register_request) ==
    LET uri == build_uri(self, <<"/v2/apps/">> \o application_id)
        json == to_string_RegisterRequest(register_request)
    IN  IF ~uri.ok THEN uri
        ELSE Ok([method |-> "POST", uri |-> uri.value[1],
                 headers |-> SetHeader(set_headers(self, <<>>),
                                       "Content-Length", <<Len(json[1][2])>>),
                 body |-> json])

get_application_request_of(self, application_id) ==
    LET uri == build_uri(self, <<"/v2/apps/">> \o application_id)
    IN  IF ~uri.ok THEN uri
        ELSE Ok([method |-> "GET", uri |-> uri.value[1],
                 headers |-> SetHeader(set_headers(self, <<>>),
                                       "Accept-Encoding", <<"gzip">>),
                 body |-> <<>>])

get_applications_request_of(self) ==
    LET uri == build_uri(self, <<"/v2/apps">>)
    IN  IF ~uri.ok THEN uri
        ELSE Ok([method |-> "GET", uri |-> uri.value[1],
                 headers |-> set_headers(self, <<>>),
                 body |-> <<>>])

--------------------------------------------------------------------------
(* The future chains.  An outcome is what the boxed future resolves to:    *)
(* [kind, value], kind "Ok" or an EurekaClientError variant.               *)

Outcome(kind, value) == [kind |-> kind, value |-> value]
Pending == Outcome("pending", <<>>)

\* register treating every status from 400 up as a failure
register_failing_on_every_error_status(status) ==
    IF status = StatusCode_BadRequest THEN Outcome("BadRequest", <<>>)
    ELSE IF status = StatusCode_NotFound THEN Outcome("NotFound", <<>>)
    ELSE IF status >= StatusCode_InternalServerError
         THEN Outcome("InternalServerError", <<>>)
    ELSE Outcome("Ok", <<>>)

\* register: .and_then(|res| match res.status() { ... })
register_on_response(status) ==
    IF status = StatusCode_BadRequest THEN Outcome("BadRequest", <<>>)
    ELSE IF status = StatusCode_InternalServerError
         THEN Outcome("InternalServerError", <<>>)
    ELSE Outcome("Ok", <<>>)

\* get_application decoding the body before it looks at the status
get_application_decoding_first(status, body) ==
    LET r == from_slice_ApplicationResponse(body) IN
    IF r.ok THEN Outcome("Ok", r.value)
    ELSE IF status = StatusCode_NotFound THEN Outcome("NotFound", <<>>)
    ELSE Outcome(EurekaClientError_from(HyperError_Io), <<>>)

\* get_application: concat2().and_then(move |body| match status { ... }), then
\* map_err(EurekaClientError::from), then the IntermediateResult is unwrapped
get_application_on_body(status, body) ==
    IF status = StatusCode_NotFound THEN Outcome("NotFound", <<>>)
    ELSE LET r == from_slice_ApplicationResponse(body) IN
         IF r.ok THEN Outcome("Ok", r.value)
         ELSE Outcome(EurekaClientError_from(HyperError_Io), <<>>)

\* get_applications without the NotFound arm
get_applications_without_not_found(status, body) ==
    LET r == from_slice_ApplicationsResponse(body) IN
    IF r.ok THEN Outcome("Ok", r.value)
    ELSE Outcome(EurekaClientError_from(HyperError_Io), <<>>)

\* get_applications: the same chain over ApplicationsResponse
get_applications_on_body(status, body) ==
    IF status = StatusCode_NotFound THEN Outcome("NotFound", <<>>)
    ELSE LET r == from_slice_ApplicationsResponse(body) IN
         IF r.ok THEN Outcome("Ok", r.value)
         ELSE Outcome(EurekaClientError_from(HyperError_Io), <<>>)

\* a transport error dropped instead of mapped
transport_error_swallowed(e) == Outcome("Ok", <<>>)

\* map_err(|e| EurekaClientError::from(e)) on a transport error
on_transport_error(e) == Outcome(EurekaClientError_from(e), <<>>)

--------------------------------------------------------------------------
(* The client as a state machine.  Each call slot holds one call of one    *)
(* operation: the request it built, how many times it handed a request to  *)
(* the transport, what the transport delivered, and what its future        *)
(* resolved to.                                                            *)

CallIds == 1..MaxCalls

IdleCall ==
    [op |-> "none",      \* the operation called
     pc |-> "idle",      \* idle, panicked, requested, body, done
     request |-> <<>>,   \* Option<Request>
     sent |-> 0,         \* calls of client.request(req)
     send |-> "",        \* the request's fate: "ok" (a response came), "failed"
     status |-> 0,       \* res.status()
     read |-> "",        \* concat2()'s fate: "ok", "failed"
     body |-> <<>>,      \* Option<body>
     decode |-> "",      \* serde_json::from_slice's fate: "ok", "failed"
     outcome |-> Pending]

ClientInit ==
    /\ CodecIdle
    /\ client \in [client_name : ClientNames, eureka_cluster_url : BaseUrls]
    /\ calls = [c \in CallIds |-> IdleCall]

\* the synchronous part of an operation: the request is built (build_uri may
\* panic) and handed to client.request
Start(c, op, req) ==
    /\ calls[c].pc = "idle"
    /\ calls' = [calls EXCEPT ![c] =
                    IF req.ok
                    THEN [@ EXCEPT !.op = op, !.pc = "requested",
                                   !.request = req.value, !.sent = @ + 1]
                    ELSE [@ EXCEPT !.op = op, !.pc = "panicked"]]
    /\ UNCHANGED <<client, codecVars>>

Register(c) ==
    \E application_id \in ApplicationIds :
        Start(c, "register", register_request_of(client, application_id, TestInstance))

GetApplication(c) ==
    \E application_id \in ApplicationIds :
        Start(c, "get_application", get_application_request_of(client, application_id))

GetApplications(c) ==
    Start(c, "get_applications", get_applications_request_of(client))

\* client.request(req) resolves to an error: map_err
SendFails(c) ==
    /\ calls[c].pc = "requested"
    /\ \E e \in HyperErrors :
         calls' = [calls EXCEPT ![c] =
                     [@ EXCEPT !.send = "failed", !.pc = "done",
                               !.outcome = on_transport_error(e)]]
    /\ UNCHANGED <<client, codecVars>>

\* the response's status kept in one place for the whole client: it reaches
\* every call that is waiting for its body, not only the call it answers
ResponseArrives_sharing_status(c) ==
    /\ calls[c].pc = "requested"
    /\ \E status \in StatusCodes :
         calls' = [d \in CallIds |->
                     IF d = c
                     THEN IF calls[d].op = "register"
                          THEN [calls[d] EXCEPT !.send = "ok", !.status = status,
                                                !.pc = "done",
                                                !.outcome = register_on_response(status)]
                          ELSE [calls[d] EXCEPT !.send = "ok", !.status = status,
                                                !.pc = "body"]
                     ELSE IF calls[d].pc = "body"
                          THEN [calls[d] EXCEPT !.status = status]
                          ELSE calls[d]]
    /\ UNCHANGED <<client, codecVars>>

\* the status matched as soon as the response head is there: a 404 completes the
\* call with NotFound without the body being read
ResponseArrives_classifying_early(c) ==
    /\ calls[c].pc = "requested"
    /\ \E status \in StatusCodes :
         calls' = [calls EXCEPT ![c] =
                     IF @.op = "register"
                     THEN [@ EXCEPT !.send = "ok", !.status = status, !.pc = "done",
                                    !.outcome = register_on_response(status)]
                     ELSE IF status = StatusCode_NotFound
                     THEN [@ EXCEPT !.send = "ok", !.status = status, !.pc = "done",
                                    !.outcome = Outcome("NotFound", <<>>)]
                     ELSE [@ EXCEPT !.send = "ok", !.status = status, !.pc = "body"]]
    /\ UNCHANGED <<client, codecVars>>

\* client.request(req) resolves to a response: the first and_then
ResponseArrives(c) ==
    /\ calls[c].pc = "requested"
    /\ \E status \in StatusCodes :
         calls' = [calls EXCEPT ![c] =
                     IF @.op = "register"
                     THEN [@ EXCEPT !.send = "ok", !.status = status, !.pc = "done",
                                    !.outcome = register_on_response(status)]
                     ELSE [@ EXCEPT !.send = "ok", !.status = status, !.pc = "body"]]
    /\ UNCHANGED <<client, codecVars>>

\* res.body().concat2() resolves to an error: map_err
BodyFails(c) ==
    /\ calls[c].pc = "body"
    /\ \E e \in HyperErrors :
         calls' = [calls EXCEPT ![c] =
                     [@ EXCEPT !.read = "failed", !.pc = "done",
                               !.outcome = on_transport_error(e)]]
    /\ UNCHANGED <<client, codecVars>>

\* what from_slice did, for the record: "" when it was not called
DecodeFate(op, status, body) ==
    IF status = StatusCode_NotFound THEN ""
    ELSE IF op = "get_application"
         THEN (IF from_slice_ApplicationResponse(body).ok THEN "ok" ELSE "failed")
         ELSE (IF from_slice_ApplicationsResponse(body).ok THEN "ok" ELSE "failed")

\* res.body().concat2() resolves to the body: the inner and_then and the rest
\* of the chain
BodyArrives(c) ==
    /\ calls[c].pc = "body"
    /\ \E b \in Bodies :
         LET call == calls[c] IN
         calls' = [calls EXCEPT ![c] =
                     [call EXCEPT !.read = "ok", !.body = <<b>>, !.pc = "done",
                                  !.decode = DecodeFate(call.op, call.status, b),
                                  !.outcome =
                                      IF call.op = "get_application"
                                      THEN get_application_on_body(call.status, b)
                                      ELSE get_applications_on_body(call.status, b)]]
    /\ UNCHANGED <<client, codecVars>>

Next ==
    \E c \in CallIds :
        \/ Register(c)
        \/ GetApplication(c)
        \/ GetApplications(c)
        \/ SendFails(c)
        \/ ResponseArrives(c)
        \/ BodyFails(c)
        \/ BodyArrives(c)

Init == ClientInit

Spec == Init /\ [][Next]_vars

--------------------------------------------------------------------------
(* Claims about the client (checked under Spec) *)

ErrorKinds == {"NotFound", "BadRequest", "InternalServerError", "TransportError"}

\* C7: register, once a response has arrived, fails with BadRequest exactly on
\* status 400, with InternalServerError exactly on status 500, and succeeds
\* with no value on every other status; it never reads the response body.
C7_RegisterStatus ==
    \A c \in CallIds :
        calls[c].op = "register" =>
            /\ calls[c].pc # "body"
            /\ calls[c].read = "" /\ calls[c].body = <<>> /\ calls[c].decode = ""
            /\ (calls[c].pc = "done" /\ calls[c].send = "ok") =>
                 /\ calls[c].outcome.kind = "BadRequest" <=> calls[c].status = 400
                 /\ calls[c].outcome.kind = "InternalServerError"
                      <=> calls[c].status = 500
                 /\ calls[c].status \notin {400, 500}
                      => calls[c].outcome = Outcome("Ok", <<>>)

\* C7's case: a register call answered 404 has succeeded
C7_Witness ==
    \E c \in CallIds :
        /\ calls[c].op = "register" /\ calls[c].pc = "done"
        /\ calls[c].status = 404 /\ calls[c].outcome.kind = "Ok"

\* C8: get_application, once the body has been read: on status 404 it fails
\* with NotFound whatever the body holds; on any other status it returns the
\* ApplicationResponse decoded from the body, or fails with TransportError when
\* the body does not decode.
C8_GetApplicationOutcome ==
    \A c \in CallIds :
        (calls[c].op = "get_application" /\ calls[c].pc = "done"
         /\ calls[c].read = "ok") =>
            IF calls[c].status = 404
            THEN calls[c].outcome = Outcome("NotFound", <<>>)
            ELSE LET r == from_slice_ApplicationResponse(calls[c].body[1]) IN
                 IF r.ok THEN calls[c].outcome = Outcome("Ok", r.value)
                 ELSE calls[c].outcome = Outcome("TransportError", <<>>)

\* C8's case: a get_application call answered 404 with a body that would decode
\* has failed with NotFound
C8_Witness ==
    \E c \in CallIds :
        /\ calls[c].op = "get_application" /\ calls[c].pc = "done"
        /\ calls[c].status = 404 /\ calls[c].read = "ok"
        /\ from_slice_ApplicationResponse(calls[c].body[1]).ok
        /\ calls[c].outcome.kind = "NotFound"

\* C8's other cases: status 500 with a decodable body returns the value, status
\* 200 with an undecodable body fails with TransportError
C8_DecodeCases ==
    /\ \E c \in CallIds :
        /\ calls[c].op = "get_application" /\ calls[c].status = 500
        /\ calls[c].outcome.kind = "Ok"
    /\ \E c \in CallIds :
        /\ calls[c].op = "get_application" /\ calls[c].status = 200
        /\ calls[c].decode = "failed" /\ calls[c].outcome.kind = "TransportError"

\* the transport events a call saw
Events(call) ==
    [send |-> call.send, status |-> call.status, read |-> call.read,
     decode |-> call.decode]

WithoutHeader(headers, name) == {h \in Range(headers) : h[1] # name}

\* C9: a get_application call and a get_applications call that saw the same
\* transport events (send failure, status, body read result, decode result)
\* end in the same kind of outcome; their requests differ only in the path
\* (/v2/apps/{application_id} against /v2/apps) and in Accept-Encoding: gzip,
\* which only get_application sets.
C9_SameBranching ==
    \A a, b \in CallIds :
        (calls[a].op = "get_application" /\ calls[b].op = "get_applications") =>
            /\ (calls[a].pc = "done" /\ calls[b].pc = "done"
                /\ Events(calls[a]) = Events(calls[b]))
                 => calls[a].outcome.kind = calls[b].outcome.kind
            /\ (calls[a].request # <<>> /\ calls[b].request # <<>>) =>
                 LET ra == calls[a].request[1]
                     rb == calls[b].request[1]
                 IN  /\ \E id \in ApplicationIds :
                            ra.uri = client.eureka_cluster_url \o <<"/v2/apps/">> \o id
                     /\ rb.uri = client.eureka_cluster_url \o <<"/v2/apps">>
                     /\ ra.method = rb.method /\ ra.body = rb.body
                     /\ <<"Accept-Encoding", <<"gzip">> >> \in Range(ra.headers)
                     /\ "Accept-Encoding" \notin HeaderNames(rb.headers)
                     /\ WithoutHeader(ra.headers, "Accept-Encoding") = Range(rb.headers)

\* C9's case: the two operations ran side by side on the same events, through
\* the decoding of the body
C9_Witness ==
    \E a, b \in CallIds :
        /\ calls[a].op = "get_application" /\ calls[b].op = "get_applications"
        /\ calls[a].pc = "done" /\ calls[b].pc = "done"
        /\ Events(calls[a]) = Events(calls[b])
        /\ calls[a].decode = "ok"

\* C10: every call hands exactly one request to the transport; a call that
\* completes with a failure completes with one of NotFound, BadRequest,
\* InternalServerError and TransportError; a failure to send, to read the body
\* or to decode it completes the call with TransportError; and a call succeeds
\* only if none of these failed.
C10_FailuresSurface ==
    \A c \in CallIds :
        /\ calls[c].sent <= 1
        /\ calls[c].pc \in {"requested", "body", "done"} => calls[c].sent = 1
        /\ calls[c].pc # "done" => calls[c].outcome = Pending
        /\ calls[c].pc = "done" =>
             /\ calls[c].outcome.kind \in ErrorKinds \cup {"Ok"}
             /\ ("failed" \in {calls[c].send, calls[c].read, calls[c].decode})
                  => calls[c].outcome = Outcome("TransportError", <<>>)
             /\ calls[c].outcome.kind = "Ok" =>
                  /\ calls[c].send = "ok"
                  /\ calls[c].op # "register" =>
                       (calls[c].read = "ok" /\ calls[c].decode = "ok")

\* C10's case: a call whose body did not decode has completed with
\* TransportError, after one request
C10_Witness ==
    \E c \in CallIds :
        /\ calls[c].pc = "done" /\ calls[c].decode = "failed"
        /\ calls[c].outcome.kind = "TransportError" /\ calls[c].sent = 1

\* what a call resolves to when it runs alone on the client and sees the
\* transport events the call saw
RunAlone(call) ==
    IF call.send = "failed" THEN Outcome("TransportError", <<>>)
    ELSE IF call.op = "register" THEN register_on_response(call.status)
    ELSE IF call.read = "failed" THEN Outcome("TransportError", <<>>)
    ELSE IF call.op = "get_application"
         THEN get_application_on_body(call.status, call.body[1])
         ELSE get_applications_on_body(call.status, call.body[1])

\* the response a call received
Response(call) ==
    [send |-> call.send, status |-> call.status, read |-> call.read,
     body |-> call.body]

\* within one step: the client's fields are not written, and at most one call
\* moves
IndependentStep ==
    /\ client' = client
    /\ \A c, d \in CallIds :
         (c # d /\ calls'[c] # calls[c]) => calls'[d] = calls[d]
    /\ \A c \in CallIds :
         calls[c].pc \in {"requested", "body", "done"} =>
             /\ calls'[c].op = calls[c].op /\ calls'[c].request = calls[c].request
             /\ calls[c].send # "" => calls'[c].send = calls[c].send
             /\ calls[c].pc \in {"body", "done"} => calls'[c].status = calls[c].status
             /\ calls[c].pc = "done" => calls'[c] = calls[c]

\* a completed call's outcome is the one of a run alone, and two completed
\* calls of one operation with the same request and the same response have the
\* same outcome
IndependentOutcome ==
    /\ \A c \in CallIds :
         calls[c].pc = "done" => calls[c].outcome = RunAlone(calls[c])
    /\ \A a, b \in CallIds :
         (/\ calls[a].pc = "done" /\ calls[b].pc = "done"
          /\ calls[a].op = calls[b].op /\ calls[a].request = calls[b].request
          /\ Response(calls[a]) = Response(calls[b]))
         => calls[a].outcome = calls[b].outcome

\* C11: overlapping calls on one EurekaClient are independent: no step of any
\* operation writes the client's fields, a step of one call leaves every other
\* call as it was, a call's request, its response and its outcome stay its own
\* once it has them, and under every interleaving a completed call's outcome is
\* the one it has when run alone on its own request and response.
C11_CallsIndependent == [][IndependentStep]_vars /\ []IndependentOutcome

\* C11's case: one call has completed with NotFound while another call of the
\* same operation and the same request, answered 200, is still reading its body
C11_Witness ==
    \E a, b \in CallIds :
        /\ a # b /\ calls[a].op = calls[b].op /\ calls[a].op # "register"
        /\ calls[a].request = calls[b].request
        /\ calls[a].pc = "done" /\ calls[a].outcome.kind = "NotFound"
        /\ calls[b].pc = "body" /\ calls[b].status = 200

\* the client's base URL parses
BaseUrlParses == ParseUri(client.eureka_cluster_url).ok

\* no call on a client whose base URL does not parse hands a request to the
\* transport
NoRequestOnMalformedBase ==
    \A c \in CallIds :
        ~BaseUrlParses => (calls[c].sent = 0 /\ calls[c].request = <<>>)

\* C12: a malformed base URL is a construction-time failure, not a per-call
\* failure: EurekaClient::new fails on a base URL that does not parse, so no
\* operation is ever called on (and none fails on) a client holding one, and no
\* request is ever sent for such a client.
C12_ConstructionTimeFailure ==
    /\ \A c \in CallIds : calls[c].op # "none" => BaseUrlParses
    /\ NoRequestOnMalformedBase

GetOperations == {"get_application", "get_applications"}

\* C13: in get_application and get_applications the status is classified only
\* after the whole body has been accumulated: while the body is being read the
\* call is pending whatever the status, a call that failed with NotFound has
\* read its body to the end, and a call whose body read failed has failed with
\* TransportError for every status, 404 included.
C13_StatusAfterBody ==
    \A c \in CallIds :
        calls[c].op \in GetOperations =>
            /\ calls[c].pc = "body" => calls[c].outcome = Pending
            /\ calls[c].outcome.kind = "NotFound" =>
                 (calls[c].pc = "done" /\ calls[c].read = "ok" /\ calls[c].body # <<>>)
            /\ calls[c].read = "failed" =>
                 (calls[c].pc = "done"
                  /\ calls[c].outcome = Outcome("TransportError", <<>>))

\* C13's case: a call answered 404 whose body read failed has failed with
\* TransportError
C13_Witness ==
    \E c \in CallIds :
        /\ calls[c].op \in GetOperations /\ calls[c].pc = "done"
        /\ calls[c].status = 404 /\ calls[c].read = "failed"
        /\ calls[c].outcome.kind = "TransportError"

\* C13's other case: a call answered 404 is pending while its body is read
C13_PendingCase ==
    \E c \in CallIds :
        /\ calls[c].op \in GetOperations /\ calls[c].pc = "body"
        /\ calls[c].status = 404 /\ calls[c].outcome = Pending

==========================================================================
